---------------------------- MODULE Spec2Model ----------------------------
(***************************************************************************)
(* Harbor - TouristPulse.                                                  *)
(*                                                                         *)
(* Part I models the TouristPulse React component (components/TouristPulse)*)
(* as a state machine: its three pieces of React state (outlook, loading,  *)
(* error), the invocations of the async function loadTouristOutlook (one   *)
(* per run of the mount effect), the network between the component and the *)
(* Python backend, and the rendered view as a function of the state.       *)
(*                                                                         *)
(* Part II models the analytical core's tier classifier (hysteresis,       *)
(* per-(module, location) state, per-key serialisation).  The backend is   *)
(* not among the source files; that part is modelled from the written      *)
(* specification (sections 4.4 and 5).                                     *)
(*                                                                         *)
(* Conventions.  A nullable value is an option: <<>> is null/undefined and *)
(* <<v>> is the value v.  An ISO date is a day number, an instant is a     *)
(* number of minutes since the epoch, a confidence in [0,1] is an integer  *)
(* number of thousandths (0..1000).                                        *)
(***************************************************************************)
EXTENDS Integers, Sequences, FiniteSets, TLC

VARIABLES
    \* ---- React state of TouristPulse (part_002:28-31)
    outlook,      \* useState<TouristPulseOutlook[]>([])
    loading,      \* useState(true)
    error,        \* useState<string | null>(null)
    \* ---- environment of the component
    mode,         \* "production" | "development" (reactStrictMode double-invokes effects in development)
    tz,           \* the browser's time-zone offset in minutes, used by toLocaleString
    mounted,      \* whether the mount effect has run
    \* ---- one record per invocation of loadTouristOutlook
    pc,           \* "idle" | "fetch" (awaiting fetch) | "json" (awaiting response.json()) | "done"
    stalled,      \* the backend accepted the request and never answers
    response,     \* const response (option)
    data,         \* const data (option)
    caught,       \* err of the catch clause (option)
    \* ---- analytical core: tier classifier (written specification, 4.4 and 5)
    tierState,    \* state store: (module, location) -> last tier, NoTier before the first classification
    lock,         \* per-key lock: (module, location) -> holder, or NoHolder
    rpc,          \* per request: "idle" | "waiting" (for the key's lock) | "read" (holds the lock, has read the last tier)
    rkey,         \* per request: the (module, location) it classifies for
    rscore,       \* per request: the period score it classifies
    rlast,        \* per request: the last tier it read from the state store
    serialTier,   \* history: the tier obtained by applying the committed classifications one after the other
    lastBand,     \* history: per key, the hysteresis band the previous period's score lay in (0: none)
    held          \* history: per key, the last classification kept the tier although the score had crossed the nominal threshold inside the band

uiVars   == <<outlook, loading, error, mode, tz, mounted, pc, stalled, response, data, caught>>
coreVars == <<tierState, lock, rpc, rkey, rscore, rlast, serialTier, lastBand, held>>
vars     == <<outlook, loading, error, mode, tz, mounted, pc, stalled, response, data, caught,
              tierState, lock, rpc, rkey, rscore, rlast, serialTier, lastBand, held>>

Null == <<>>
Some(v) == <<v>>
Get(o) == o[1]

(***************************************************************************)
(*                    PART I - the TouristPulse component                  *)
(***************************************************************************)

\* The mount effect runs loadTouristOutlook once, and twice under
\* reactStrictMode in a development build: at most two invocations.
Inv == {1, 2}

\* days=30 in the request URL, "30-Day Tourism Forecast" in the heading.
Days == 30

\* const [location] = useState('Santa Cruz')
Location == "Santa Cruz"

\* ---- bounds of the environment
NumVariants == 3
Variants == 1..NumVariants
TZOffsets == {-480, 0, 60}
Statuses == {200, 404, 500}

\* The tier values of the tourism module, in order.
DemandLevels == <<"low", "moderate", "high", "very_high">>

\* Strings that are no demand level, as inputs of getLevelColor.
OtherLevels == {"", "LOW", "normal", "very-high", "critical", "unknown"}

\* Confidences (thousandths) the backend reports, both ends of the range included.
Confidences == <<0, 4, 5, 495, 500, 994, 995, 1000>>

\* ---- the backend's answer to GET /touristpulse/outlook?location=..&days=..
\* One Outlook per day of the horizon, generated_at, and the echoed location.
\* Variant v stands for the day the request is served on and for the signals
\* the backend saw.
BackendOutlook(v, location, days) ==
    [ location     |-> location,
      generated_at |-> (v * 1440) + 615 + v,
      outlook      |-> [ d \in 1..days |->
                           [ date         |-> v + d - 1,
                             demand_level |-> DemandLevels[((d + v) % Len(DemandLevels)) + 1],
                             confidence   |-> Confidences[((d * v) % Len(Confidences)) + 1] ] ] ]

\* What the network can deliver for the fetch of line 45.
OkBodies ==
    { [kind |-> "json", value |-> BackendOutlook(v, Location, Days)] : v \in Variants }
    \cup { [kind |-> "text"] }

Responses ==
    { [status |-> s, body |-> b] : s \in Statuses, b \in OkBodies }

\* response.ok
Ok(r) == r.status >= 200 /\ r.status <= 299

\* ---- errors
MkError(msg) == [isError |-> TRUE, message |-> msg]

\* fetch rejects with a TypeError when the network fails
NetworkError == MkError("Failed to fetch")

\* response.json() rejects with a SyntaxError when the body is no JSON
ParseError == MkError("Unexpected token < in JSON at position 0")

\* throw new Error(`Backend API error: ${response.status}`)
StatusError(r) == MkError("Backend API error: " \o ToString(r.status))

\* err instanceof Error ? err.message : 'Failed to load tourist outlook'
CatchMessage(err) ==
    IF err.isError THEN err.message ELSE "Failed to load tourist outlook"

\* A week of the forecast only (the slip: data.outlook.slice(0, 7)).
OutlookFirstWeek(d) ==
    IF d.outlook = Null THEN <<>> ELSE SubSeq(d.outlook, 1, 7)

\* data.outlook || []   (a missing outlook and an empty one both give [])
OutlookOrEmpty(d) ==
    IF d.outlook = Null THEN <<>> ELSE d.outlook

\* ---- rendering helpers
\* The switch without its 'moderate' case.
getLevelColorNoModerate(level) ==
    CASE level = "very_high" -> [bg |-> "#d8b4fe", text |-> "#6b21a8", border |-> "#a855f7", label |-> "VERY HIGH"]
      [] level = "high"      -> [bg |-> "#bbf7d0", text |-> "#166534", border |-> "#22c55e", label |-> "HIGH"]
      [] level = "low"       -> [bg |-> "#fef3c7", text |-> "#92400e", border |-> "#f59e0b", label |-> "LOW"]
      [] OTHER               -> [bg |-> "#e5e7eb", text |-> "#374151", border |-> "#9ca3af", label |-> "UNKNOWN"]

getLevelColor(level) ==
    CASE level = "very_high" -> [bg |-> "#d8b4fe", text |-> "#6b21a8", border |-> "#a855f7", label |-> "VERY HIGH"]
      [] level = "high"      -> [bg |-> "#bbf7d0", text |-> "#166534", border |-> "#22c55e", label |-> "HIGH"]
      [] level = "moderate"  -> [bg |-> "#bfdbfe", text |-> "#1e40af", border |-> "#3b82f6", label |-> "NORMAL"]
      [] level = "low"       -> [bg |-> "#fef3c7", text |-> "#92400e", border |-> "#f59e0b", label |-> "LOW"]
      [] OTHER               -> [bg |-> "#e5e7eb", text |-> "#374151", border |-> "#9ca3af", label |-> "UNKNOWN"]

\* new Date(isoDate): a date-only ISO string is midnight UTC of that day.
ParseDate(day) == day * 1440

\* Date.prototype.toLocaleString(): the instant shown in the browser's time zone.
ToLocaleString(instant, offset) ==
    LET local == instant + offset
    IN  [valid |-> TRUE, day |-> local \div 1440, hh |-> (local % 1440) \div 60, mm |-> local % 60]

\* the literal 'N/A'
NotAvailable == [valid |-> FALSE, day |-> 0, hh |-> 0, mm |-> 0]

\* dateObj.toLocaleDateString('en-US', {weekday, month, day}): the local calendar day.
ToLocaleDateString(instant, offset) ==
    LET local == instant + offset
    IN  [day |-> local \div 1440, weekday |-> (local \div 1440) % 7]

\* Math.round(confidence * 100), confidence in thousandths: halves round up.
RoundPercent(conf) == (conf + 5) \div 10

\* {day.confidence && (<span> ({Math.round(day.confidence * 100)}% confidence)</span>)}
\* A falsy left operand is the value of the expression; React renders the
\* number 0 as the text "0" (and renders nothing for null or undefined).
ConfidenceNode(conf) ==
    IF conf = 0
    THEN [node |-> "text", text |-> "0"]
    ELSE [node |-> "span", text |-> " (" \o ToString(RoundPercent(conf)) \o "% confidence)"]

\* one card of outlook.map((day, idx) => ...)
Card(day, offset) ==
    LET colors == getLevelColor(day.demand_level)
    IN  [ colors     |-> colors,
          date       |-> ToLocaleDateString(ParseDate(day.date), offset),
          label      |-> colors.label,
          confidence |-> ConfidenceNode(day.confidence) ]

\* if (error): null and the empty string are falsy
Truthy(e) == e # Null /\ e # Some("")

\* The value shown after "Generated at:".
GeneratedAt(o, offset) ==
    IF Len(o) > 0 THEN ToLocaleString(ParseDate(o[1].date), offset) ELSE NotAvailable

\* The component without its "if (error)" early return.
RenderIgnoringError(l, e, o, offset) ==
    IF l THEN
        [kind |-> "loading", text |-> "Loading tourism predictions from backend..."]
    ELSE
        [ kind        |-> "outlook",
          heading     |-> ToString(Days) \o "-Day Tourism Forecast for " \o Location,
          generatedAt |-> GeneratedAt(o, offset),
          cards       |-> [idx \in 1..Len(o) |-> Card(o[idx], offset)],
          noData      |-> Len(o) = 0 ]

\* The component's return value for a given state.
Render(l, e, o, offset) ==
    IF l THEN
        [kind |-> "loading", text |-> "Loading tourism predictions from backend..."]
    ELSE IF Truthy(e) THEN
        [kind |-> "error", text |-> "Error: " \o Get(e)]
    ELSE
        [ kind        |-> "outlook",
          heading     |-> ToString(Days) \o "-Day Tourism Forecast for " \o Location,
          generatedAt |-> GeneratedAt(o, offset),
          cards       |-> [idx \in 1..Len(o) |-> Card(o[idx], offset)],
          noData      |-> Len(o) = 0 ]

\* What is on the screen.
View == Render(loading, error, outlook, tz)

\* ---- the effect and loadTouristOutlook
\* useEffect(() => { loadTouristOutlook() }, []): once, or twice under
\* reactStrictMode in development.
EffectRuns(m) == IF m = "development" THEN 2 ELSE 1

InFlight(i) == pc[i] \in {"fetch", "json"}

UIInit ==
    /\ outlook = <<>>
    /\ loading = TRUE
    /\ error = Null
    /\ mode \in {"production", "development"}
    /\ tz \in TZOffsets
    /\ mounted = FALSE
    /\ pc = [i \in Inv |-> "idle"]
    /\ stalled = [i \in Inv |-> FALSE]
    /\ response = [i \in Inv |-> Null]
    /\ data = [i \in Inv |-> Null]
    /\ caught = [i \in Inv |-> Null]

\* Every run of the effect executes loadTouristOutlook up to its first await:
\* setLoading(true); setError(null); fetch(...).
Mount ==
    /\ ~mounted
    /\ mounted' = TRUE
    /\ loading' = TRUE
    /\ error' = Null
    /\ pc' = [i \in Inv |-> IF i <= EffectRuns(mode) THEN "fetch" ELSE "idle"]
    /\ UNCHANGED <<outlook, mode, tz, stalled, response, data, caught>>
    /\ UNCHANGED coreVars

\* catch (err) { setError(...) } finally { setLoading(false) }
Fail(i, err) ==
    /\ caught' = [caught EXCEPT ![i] = Some(err)]
    /\ error' = Some(CatchMessage(err))
    /\ loading' = FALSE
    /\ pc' = [pc EXCEPT ![i] = "done"]
    /\ UNCHANGED outlook

\* The fetch promise fulfils with a response; a non-OK status is thrown.
FetchResolve(i) ==
    /\ pc[i] = "fetch"
    /\ ~stalled[i]
    /\ \E r \in Responses :
          /\ response' = [response EXCEPT ![i] = Some(r)]
          /\ IF ~Ok(r)
             THEN Fail(i, StatusError(r))
             ELSE /\ pc' = [pc EXCEPT ![i] = "json"]
                  /\ UNCHANGED <<outlook, loading, error, caught>>
    /\ UNCHANGED <<mode, tz, mounted, stalled, data>>
    /\ UNCHANGED coreVars

\* The fetch promise rejects (network failure, CORS, DNS).
FetchReject(i) ==
    /\ pc[i] = "fetch"
    /\ ~stalled[i]
    /\ Fail(i, NetworkError)
    /\ UNCHANGED <<mode, tz, mounted, stalled, response, data>>
    /\ UNCHANGED coreVars

\* The backend accepts the request and never answers.  fetch is called with
\* no AbortSignal, so the promise never settles.
FetchStall(i) ==
    /\ pc[i] = "fetch"
    /\ ~stalled[i]
    /\ stalled' = [stalled EXCEPT ![i] = TRUE]
    /\ UNCHANGED <<outlook, loading, error, mode, tz, mounted, pc, response, data, caught>>
    /\ UNCHANGED coreVars

\* response.json() settles: the data is stored, or the parse error is caught.
JsonSettle(i) ==
    /\ pc[i] = "json"
    /\ LET body == Get(response[i]).body
       IN  IF body.kind = "json"
           THEN /\ data' = [data EXCEPT ![i] = Some(body.value)]
                /\ outlook' = OutlookOrEmpty(body.value)
                /\ loading' = FALSE
                /\ pc' = [pc EXCEPT ![i] = "done"]
                /\ UNCHANGED <<error, caught>>
           ELSE /\ Fail(i, ParseError)
                /\ UNCHANGED data
    /\ UNCHANGED <<mode, tz, mounted, stalled, response>>
    /\ UNCHANGED coreVars

UINext ==
    \/ Mount
    \/ \E i \in Inv : FetchResolve(i)
    \/ \E i \in Inv : FetchReject(i)
    \/ \E i \in Inv : FetchStall(i)
    \/ \E i \in Inv : JsonSettle(i)

(***************************************************************************)
(*       PART II - the tier classifier of the analytical core              *)
(*       (written specification, sections 3, 4.4 and 5)                    *)
(***************************************************************************)

\* ---- bounds
NumReq == 2
MaxScore == 9

Req == 1..NumReq
Scores == 0..MaxScore

\* Classifier state is keyed by (module, location).
Keys == { <<"tourism", "Santa Cruz">>, <<"tourism", "Capitola">> }
NoKey == <<"", "">>

\* Tiers of the tourism module are 1..4 (low < moderate < high < very_high);
\* NoTier is the state of an entity that was never classified.
NoTier == 0
NoHolder == 0

\* Boundary b separates tier b from tier b+1.  Each has a nominal threshold
\* and a wider band [lower, upper) around it; bands do not overlap.
Threshold      == <<2, 5, 8>>
LowerThreshold == <<1, 4, 7>>
UpperThreshold == <<3, 6, 9>>
Boundaries == 1..Len(Threshold)

\* First-ever classification: the threshold bands directly.
DirectTier(s) == 1 + Cardinality({b \in Boundaries : s >= Threshold[b]})

\* Classification with hysteresis: rise past every boundary whose upper
\* threshold the score reaches, fall past every boundary whose lower
\* threshold the score is below, otherwise keep the last tier.
ClassifyFlapping(last, s) == DirectTier(s)

Classify(last, s) ==
    IF last = NoTier THEN DirectTier(s)
    ELSE LET up   == Cardinality({b \in Boundaries : b >= last /\ s >= UpperThreshold[b]})
             down == Cardinality({b \in Boundaries : b < last /\ s < LowerThreshold[b]})
         IN  last + up - down

\* The band the score lies in: b when lower(b) <= s < upper(b), 0 outside every band.
Band(s) ==
    IF \E b \in Boundaries : LowerThreshold[b] <= s /\ s < UpperThreshold[b]
    THEN CHOOSE b \in Boundaries : LowerThreshold[b] <= s /\ s < UpperThreshold[b]
    ELSE 0

\* Single writer per key: the read-modify-write starts only with the key's lock free.
CanAcquireUnguarded(k) == TRUE

CanAcquire(k) == lock[k] = NoHolder

CoreInit ==
    /\ tierState = [k \in Keys |-> NoTier]
    /\ lock = [k \in Keys |-> NoHolder]
    /\ rpc = [r \in Req |-> "idle"]
    /\ rkey = [r \in Req |-> NoKey]
    /\ rscore = [r \in Req |-> 0]
    /\ rlast = [r \in Req |-> NoTier]
    /\ serialTier = [k \in Keys |-> NoTier]
    /\ lastBand = [k \in Keys |-> 0]
    /\ held = [k \in Keys |-> FALSE]

\* An outlook request for (module, location) reaches the classifier.
Begin(r, k) ==
    /\ rpc[r] = "idle"
    /\ rpc' = [rpc EXCEPT ![r] = "waiting"]
    /\ rkey' = [rkey EXCEPT ![r] = k]
    /\ UNCHANGED <<tierState, lock, rscore, rlast, serialTier, lastBand, held>>
    /\ UNCHANGED uiVars

\* The request takes the key's lock and reads the last tier; s is the score
\* of the period it classifies.
Acquire(r, s) ==
    /\ rpc[r] = "waiting"
    /\ CanAcquire(rkey[r])
    /\ lock' = [lock EXCEPT ![rkey[r]] = r]
    /\ rscore' = [rscore EXCEPT ![r] = s]
    /\ rlast' = [rlast EXCEPT ![r] = tierState[rkey[r]]]
    /\ rpc' = [rpc EXCEPT ![r] = "read"]
    /\ UNCHANGED <<tierState, rkey, serialTier, lastBand, held>>
    /\ UNCHANGED uiVars

\* The request stores the new tier and releases the lock.
Commit(r) ==
    /\ rpc[r] = "read"
    /\ LET k == rkey[r]
           s == rscore[r]
           t == Classify(rlast[r], s)
       IN  /\ tierState' = [tierState EXCEPT ![k] = t]
           /\ serialTier' = [serialTier EXCEPT ![k] = Classify(serialTier[k], s)]
           /\ lastBand' = [lastBand EXCEPT ![k] = Band(s)]
           /\ held' = [held EXCEPT ![k] =
                          lastBand[k] # 0 /\ Band(s) = lastBand[k] /\ DirectTier(s) # t]
           /\ lock' = [lock EXCEPT ![k] = NoHolder]
    /\ rpc' = [rpc EXCEPT ![r] = "idle"]
    /\ rkey' = [rkey EXCEPT ![r] = NoKey]
    /\ rscore' = [rscore EXCEPT ![r] = 0]
    /\ rlast' = [rlast EXCEPT ![r] = NoTier]
    /\ UNCHANGED uiVars

CoreNext ==
    \/ \E r \in Req, k \in Keys : Begin(r, k)
    \/ \E r \in Req, s \in Scores : Acquire(r, s)
    \/ \E r \in Req : Commit(r)

(***************************************************************************)
(*                           Specifications                                *)
(***************************************************************************)

\* The component, with the classifier at rest.
Init == UIInit /\ CoreInit

Next == UINext

Spec == Init /\ [][Next]_vars

\* The component under fair scheduling: a settled promise's continuation
\* runs, a response that is on its way arrives.  Nothing makes a stalled
\* backend answer.
Fairness ==
    /\ WF_vars(Mount)
    /\ \A i \in Inv : WF_vars(FetchResolve(i) \/ FetchReject(i))
    /\ \A i \in Inv : WF_vars(JsonSettle(i))

LiveSpec == Init /\ [][Next]_vars /\ Fairness

\* The classifier, with the component unmounted.
CoreStart == UIInit /\ mode = "production" /\ tz = 0 /\ CoreInit

CoreSpec == CoreStart /\ [][CoreNext]_vars

(***************************************************************************)
(*                               Claims                                    *)
(***************************************************************************)

\* C1 (CoreSpec).  Hysteresis: a classification whose score lies in the same
\* band [lower, upper) as the previous period's score leaves the tier as it
\* was; the tier of a classified entity rises only on a score that reaches
\* the upper threshold of every boundary it rises past, and falls only on a
\* score below the lower threshold of every boundary it falls past.
C1_Hysteresis ==
    [][\A r \in Req :
         (rpc[r] = "read" /\ rpc'[r] = "idle") =>
            LET k   == rkey[r]
                s   == rscore[r]
                old == tierState[k]
                new == tierState'[k]
            IN  /\ (lastBand[k] # 0 /\ Band(s) = lastBand[k]) => new = old
                /\ (old # NoTier /\ new > old) =>
                      \A b \in Boundaries : (old <= b /\ b < new) => s >= UpperThreshold[b]
                /\ (old # NoTier /\ new < old) =>
                      \A b \in Boundaries : (new <= b /\ b < old) => s < LowerThreshold[b]
      ]_vars

\* C1 witness: two consecutive scores in one band, the second on the other
\* side of the nominal threshold than the stored tier, and the tier was kept.
C1_Witness ==
    \E k \in Keys : held[k] /\ tierState[k] # NoTier /\ lastBand[k] # 0

\* C2 (CoreSpec).  No lost update: under every interleaving the stored last
\* tier of every key is the result of applying the committed classifications
\* for that key one after the other (requests for other keys leave it alone);
\* two requests are never both inside the read-modify-write of one key, and
\* the tier a request read is still the stored one when it writes.
C2_NoLostUpdate ==
    /\ \A k \in Keys : tierState[k] = serialTier[k]
    /\ \A r1, r2 \in Req :
         (r1 # r2 /\ rpc[r1] = "read" /\ rpc[r2] = "read") => rkey[r1] # rkey[r2]
    /\ \A r \in Req :
         rpc[r] = "read" => (lock[rkey[r]] = r /\ rlast[r] = tierState[rkey[r]])

\* C2 witness: an earlier request has committed a tier for a key, a second
\* one is inside the read-modify-write of that key, a third party waits for it.
C2_Witness ==
    \E r1, r2 \in Req :
        /\ r1 # r2
        /\ rpc[r1] = "read" /\ rpc[r2] = "waiting"
        /\ rkey[r1] = rkey[r2]
        /\ tierState[rkey[r1]] # NoTier
        /\ \E k \in Keys : k # rkey[r1] /\ tierState[k] # NoTier /\ tierState[k] # tierState[rkey[r1]]

\* C3 (LiveSpec).  Every invocation of loadTouristOutlook that has issued
\* its fetch eventually ends, with loading = false.
C3_LoadEnds ==
    \A i \in Inv : (pc[i] = "fetch") ~> (pc[i] = "done" /\ ~loading)

C5_LevelColorTotal ==
    LET labels  == <<"LOW", "NORMAL", "HIGH", "VERY HIGH">>
        unknown == [bg |-> "#e5e7eb", text |-> "#374151", border |-> "#9ca3af", label |-> "UNKNOWN"]
        colours(c) == <<c.bg, c.text, c.border>>
    IN  /\ \A n \in 1..Len(DemandLevels) :
             /\ getLevelColor(DemandLevels[n]).label = labels[n]
             /\ colours(getLevelColor(DemandLevels[n])) # colours(unknown)
             /\ \A m \in 1..Len(DemandLevels) :
                  m # n => colours(getLevelColor(DemandLevels[m])) # colours(getLevelColor(DemandLevels[n]))
        /\ \A l \in OtherLevels : getLevelColor(l) = unknown
        /\ View.kind = "outlook" =>
             \A idx \in 1..Len(outlook) :
                 /\ View.cards[idx].label # "UNKNOWN"
                 /\ \E n \in 1..Len(DemandLevels) :
                      outlook[idx].demand_level = DemandLevels[n] /\ View.cards[idx].label = labels[n]

\* C5 witness: a displayed outlook whose cards carry all four labels.
C5_Witness ==
    /\ View.kind = "outlook"
    /\ \A lab \in {"LOW", "NORMAL", "HIGH", "VERY HIGH"} :
         \E idx \in 1..Len(outlook) : View.cards[idx].label = lab

\* C6 (Spec).  The outlook view shows, after "Generated at:", the
\* generated_at of the response whose outlook it displays, and N/A only when
\* no response data is available.
C6_GeneratedAtShown ==
    View.kind = "outlook" =>
        IF \E i \in Inv : data[i] # Null
        THEN \E i \in Inv :
                /\ data[i] # Null
                /\ OutlookOrEmpty(Get(data[i])) = outlook
                /\ View.generatedAt = ToLocaleString(Get(data[i]).generated_at, tz)
        ELSE View.generatedAt = NotAvailable

\* C7 (Spec).  The step that ends a load: a failed load leaves a non-null
\* error (the status message for a non-OK status) and outlook untouched, a
\* successful load leaves error = null.
C7_LoadOutcome ==
    [][\A i \in Inv :
         (pc[i] # "done" /\ pc'[i] = "done") =>
            IF data'[i] = Null
            THEN /\ error' # Null
                 /\ outlook' = outlook
                 /\ (response'[i] # Null /\ ~Ok(Get(response'[i]))) =>
                       error' = Some("Backend API error: " \o ToString(Get(response'[i]).status))
            ELSE error' = Null
      ]_vars

\* C8 (Spec).  The view is chosen by priority: loading, then error, then
\* outlook; "No outlook data available" exactly when outlook is empty; cards
\* only in the outlook view, never while loading or with an error.
C8_ViewPriority ==
    /\ View.kind \in {"loading", "error", "outlook"}
    /\ loading => View.kind = "loading"
    /\ (~loading /\ error # Null) => (View.kind = "error" /\ View.text = "Error: " \o Get(error))
    /\ (~loading /\ error = Null) => View.kind = "outlook"
    /\ View.kind = "outlook" =>
         /\ ~loading /\ error = Null
         /\ View.noData <=> (Len(outlook) = 0)
         /\ Len(View.cards) = Len(outlook)

\* C8 witness: an outlook is stored and an error is set; the error view is shown.
C8_Witness ==
    /\ ~loading
    /\ error # Null
    /\ Len(outlook) > 0
    /\ View.kind = "error"

\* C9 (Spec).  Every displayed card whose confidence lies in [0, 1] shows
\* "(P% confidence)", P the confidence times 100 rounded to the nearest integer.
C9_ConfidenceShown ==
    View.kind = "outlook" =>
        \A idx \in 1..Len(outlook) :
            LET c == outlook[idx].confidence
                P == CHOOSE n \in 0..100 : (10 * n) - 5 <= c /\ c < (10 * n) + 5
            IN  (0 <= c /\ c <= 1000) =>
                    View.cards[idx].confidence =
                        [node |-> "span", text |-> " (" \o ToString(P) \o "% confidence)"]

\* C10 (Spec).  While an invocation of loadTouristOutlook is in flight,
\* loading is true and the loading view is shown.
C10_LoadingWhileInFlight ==
    (\E i \in Inv : InFlight(i)) => (loading /\ View.kind = "loading")

=============================================================================
